---- MODULE Spec2Model ----
(***************************************************************************)
(* Model of the simulation driver of the Python Vehicle Simulator          *)
(* (src/src/python_vehicle_simulator/main.py).                             *)
(*                                                                         *)
(* main() builds one shipClarke83 vehicle, runs the simulator for-loop     *)
(* inline (lines 65-80), builds the time vector (line 83), then calls the  *)
(* library function simulate() on the SAME vehicle object and the same     *)
(* eta_init (line 84) and hands the result to the plotting routines.       *)
(*                                                                         *)
(* The vehicle class, attitudeEuler and simulate live in the package       *)
(* python_vehicle_simulator.{vehicles,lib}, which is not part of src/;     *)
(* they are modelled from the design document (sections 4.1-4.4, 6).       *)
(* Real numbers are abstracted to the finite domain Val with arithmetic    *)
(* modulo K; time is counted in exact integer units.                       *)
(***************************************************************************)
EXTENDS Integers, Sequences, FiniteSets, TLC

\* ---------------------------------------------------------------- bounds
MaxN == 2          \* largest number of samples N explored
MaxDt == 2         \* largest sample time explored (integer time units)
MaxDimU == 2       \* largest number of actuator channels explored
K == 3             \* size of the abstract value domain

\* ------------------------------------------------------------- constants
DOF == 6           \* degrees of freedom (main.py line 49)

Val == 0..(K - 1)

VARIABLES
    N,            \* number of samples              (module global, line 27)
    sampleTime,   \* sample time                    (module global, line 24)
    eta_init,     \* initial position and attitude  (line 43)
    vehicle,      \* the shipClarke83 object        (line 47)
    t,            \* simulation time                (lines 50, 67)
    i,            \* loop index                     (line 65)
    iter,         \* position of the range(0,N+1) iterator
    eta,          \* position/attitude              (lines 53, 80)
    nu,           \* velocity                       (lines 54, 79)
    u_actual,     \* actual inputs                  (lines 55, 79)
    u_control,    \* commanded inputs               (line 70)
    simData,      \* table of simulation data       (lines 58, 76, 84)
    simTime,      \* time vector                    (lines 83, 84)
    ret,          \* value returned by simulate(), not yet unpacked (line 84)
    plotted,      \* what plotVehicleStates received (line 87)
    calls,        \* log of the component calls made by main()
    pc            \* position of main()

vars == <<N, sampleTime, eta_init, vehicle, t, i, iter, eta, nu, u_actual,
          u_control, simData, simTime, ret, plotted, calls, pc>>

\* ------------------------------------------------- library (from design)

\* A 6-vector of zeros with the given surge/sway position and yaw.
Vec6(x, y, psi) ==
    [k \in 1..DOF |-> IF k = 1 THEN x ELSE IF k = 2 THEN y
                      ELSE IF k = 6 THEN psi ELSE 0]

\* Vehicle construction: configuration plus the mutable controller memory.
shipClarke83(dimU) ==
    [ dimU     |-> dimU,
      psi_d    |-> K - 1,                     \* desired heading
      nu       |-> Vec6(1, 0, 0),             \* initial velocity
      u_actual |-> [j \in 1..dimU |-> 0],     \* initial actuator state
      e_int    |-> 0 ]                        \* integral accumulator

\* Heading autopilot (design 4.2): wrapped heading error, PID law with an
\* integral term accumulated in the vehicle object across calls.
headingAutopilot(v, eta_, nu_, dt) ==
    LET e       == (v.psi_d + K - eta_[6]) % K
        e_int   == (v.e_int + dt * e) % K
        delta_c == (e + e_int + (K - nu_[6])) % K
    IN  [ u_control |-> [j \in 1..v.dimU |-> delta_c],
          vehicle   |-> [v EXCEPT !.e_int = e_int] ]

\* Move a towards b by at most r (actuator rate limit).
Toward(a, b, r) ==
    IF b > a THEN (IF b - a > r THEN a + r ELSE b)
    ELSE (IF a - b > r THEN a - r ELSE b)

\* Vehicle dynamics (design 4.1): one Euler step of the body velocity and
\* rate-limited actuator realisation; no side effect on the vehicle.
dynamics(v, eta_, nu_, u_actual_, u_control_, dt) ==
    LET delta == u_actual_[1]
    IN  [ nu |-> [k \in 1..DOF |->
                    IF k = 1 THEN (nu_[1] + dt) % K
                    ELSE IF k = 2 THEN (nu_[2] + dt * delta) % K
                    ELSE IF k = 6
                         THEN (nu_[6] + dt * (delta + nu_[2] + eta_[6])) % K
                    ELSE nu_[k]],
          u_actual |-> [j \in 1..Len(u_actual_) |->
                          Toward(u_actual_[j], u_control_[j], dt)] ]

\* Kinematic integrator (design 4.3): eta' = eta + dt * J(eta) * nu,
\* returned as a new vector.
attitudeEuler(eta_, nu_, dt) ==
    [k \in 1..DOF |->
        IF k = 1 THEN (eta_[1] + dt * (nu_[1] + eta_[6] * nu_[2])) % K
        ELSE (eta_[k] + dt * nu_[k]) % K]

\* numpy.arange(start, stop, step) in exact arithmetic:
\* ceil((stop - start) / step) entries start, start + step, ...
arange(start, stop, step) ==
    [j \in 1..((stop - start + step - 1) \div step) |-> start + (j - 1) * step]

\* Component names of the call log.
Components == {"headingAutopilot", "dynamics", "attitudeEuler"}

\* The driver loop of simulate() (design 4.4), iterations k..n:
\* autopilot, record the row, dynamics, integrator.
RECURSIVE simLoop(_, _, _, _, _, _, _, _)
simLoop(k, n, dt, v, eta_, nu_, u_actual_, table) ==
    IF k > n
    THEN [vehicle |-> v, simData |-> table]
    ELSE LET ap  == headingAutopilot(v, eta_, nu_, dt)
             row == ((eta_ \o nu_) \o ap.u_control) \o u_actual_
             dy  == dynamics(ap.vehicle, eta_, nu_, u_actual_, ap.u_control, dt)
             e2  == attitudeEuler(eta_, dy.nu, dt)
         IN  simLoop(k + 1, n, dt, ap.vehicle, e2, dy.nu, dy.u_actual,
                     Append(table, row))

\* simulate(N, sampleTime, vehicle, eta_init) (design 6): seeds the run from
\* eta_init and the vehicle's stored nu and u_actual, uses the vehicle's
\* controller as it finds it, returns (time vector, history table).
simulate(n, dt, v, eta0) ==
    LET r == simLoop(0, n, dt, v, eta0, v.nu, v.u_actual, <<>>)
    IN  [ simTime |-> arange(0, n * dt + dt, dt),
          simData |-> r.simData,
          vehicle |-> r.vehicle ]

\* The vehicle as simulate() leaves it when component c raises in
\* iteration k: k full iterations, plus the autopilot call of iteration k
\* when a later component of that iteration is the one that raises.
simulateAborted(k, c, dt, v, eta0) ==
    LET st == simLoop(0, k - 1, dt, v, eta0, v.nu, v.u_actual, <<>>).vehicle
    IN  IF c = "headingAutopilot" THEN st
        ELSE [st EXCEPT !.e_int = simulate(k, dt, v, eta0).vehicle.e_int]

\* One record of the call log.
Call(fn, idx, args, result, raised) ==
    [fn |-> fn, i |-> idx, args |-> args, ret |-> result, raised |-> raised]

\* ------------------------------------------------------------------ Init
Init ==
    /\ N \in 1..MaxN
    /\ sampleTime \in 1..MaxDt
    /\ eta_init \in {Vec6(1, 1, p) : p \in Val}
    /\ \E d \in 1..MaxDimU : vehicle = shipClarke83(d)
    /\ t = 0
    /\ i = 0
    /\ iter = 0
    /\ eta = <<>>
    /\ nu = <<>>
    /\ u_actual = <<>>
    /\ u_control = <<>>
    /\ simData = <<>>
    /\ simTime = <<>>
    /\ ret = <<>>
    /\ plotted = <<>>
    /\ calls = <<>>
    /\ pc = "l53"

\* --------------------------------------------------------------- actions

\* lines 53-58: initial state vectors and the empty data table
InitState ==
    /\ pc = "l53"
    /\ eta' = eta_init
    /\ nu' = vehicle.nu
    /\ u_actual' = vehicle.u_actual
    /\ simData' = <<>>
    /\ iter' = 0
    /\ pc' = "l65"
    /\ UNCHANGED <<N, sampleTime, eta_init, vehicle, t, i, u_control,
                   simTime, ret, plotted, calls>>

\* lines 65-67: the for statement yields the next index and sets t
ForNext ==
    /\ pc = "l65"
    /\ iter <= N
    /\ i' = iter
    /\ iter' = iter + 1
    /\ t' = iter * sampleTime
    /\ pc' = "l70"
    /\ UNCHANGED <<N, sampleTime, eta_init, vehicle, eta, nu, u_actual,
                   u_control, simData, simTime, ret, plotted, calls>>

\* line 65: range(0, N+1) is exhausted
ForExit ==
    /\ pc = "l65"
    /\ iter > N
    /\ pc' = "l83"
    /\ UNCHANGED <<N, sampleTime, eta_init, vehicle, t, i, iter, eta, nu,
                   u_actual, u_control, simData, simTime, ret, plotted, calls>>

\* line 70: u_control = vehicle.headingAutopilot(eta, nu, sampleTime)
Autopilot ==
    /\ pc = "l70"
    /\ LET r == headingAutopilot(vehicle, eta, nu, sampleTime) IN
         /\ u_control' = r.u_control
         /\ vehicle' = r.vehicle
         /\ calls' = Append(calls, Call("headingAutopilot", i, <<eta, nu>>,
                                        <<r.u_control>>, FALSE))
    /\ pc' = "l75"
    /\ UNCHANGED <<N, sampleTime, eta_init, t, i, iter, eta, nu, u_actual,
                   simData, simTime, ret, plotted>>

\* Mutant: the table is rebuilt from the new row instead of being extended.
Record_Overwrite ==
    /\ pc = "l75"
    /\ LET signals == ((eta \o nu) \o u_control) \o u_actual IN
         /\ simData' = <<signals>>
         /\ calls' = Append(calls, Call("vstack", i, <<signals>>, <<>>, FALSE))
    /\ pc' = "l79"
    /\ UNCHANGED <<N, sampleTime, eta_init, vehicle, t, i, iter, eta, nu,
                   u_actual, u_control, simTime, ret, plotted>>

\* Mutant: the row holds the velocity after the dynamics step.
Record_PostAdvance ==
    /\ pc = "l75"
    /\ LET nu2 == dynamics(vehicle, eta, nu, u_actual, u_control, sampleTime).nu
           signals == ((eta \o nu2) \o u_control) \o u_actual IN
         /\ simData' = Append(simData, signals)
         /\ calls' = Append(calls, Call("vstack", i, <<signals>>, <<>>, FALSE))
    /\ pc' = "l79"
    /\ UNCHANGED <<N, sampleTime, eta_init, vehicle, t, i, iter, eta, nu,
                   u_actual, u_control, simTime, ret, plotted>>

\* Mutant: u_actual and u_control are stored in the opposite order.
Record_Swapped ==
    /\ pc = "l75"
    /\ LET signals == ((eta \o nu) \o u_actual) \o u_control IN
         /\ simData' = Append(simData, signals)
         /\ calls' = Append(calls, Call("vstack", i, <<signals>>, <<>>, FALSE))
    /\ pc' = "l79"
    /\ UNCHANGED <<N, sampleTime, eta_init, vehicle, t, i, iter, eta, nu,
                   u_actual, u_control, simTime, ret, plotted>>

\* lines 75-76: append the row (eta, nu, u_control, u_actual) to simData
Record ==
    /\ pc = "l75"
    /\ LET signals == ((eta \o nu) \o u_control) \o u_actual IN
         /\ simData' = Append(simData, signals)
         /\ calls' = Append(calls, Call("vstack", i, <<signals>>, <<>>, FALSE))
    /\ pc' = "l79"
    /\ UNCHANGED <<N, sampleTime, eta_init, vehicle, t, i, iter, eta, nu,
                   u_actual, u_control, simTime, ret, plotted>>

\* Mutant: the velocity returned by the dynamics is dropped.
Dynamics_KeepsNu ==
    /\ pc = "l79"
    /\ LET r == dynamics(vehicle, eta, nu, u_actual, u_control, sampleTime) IN
         /\ nu' = nu
         /\ u_actual' = r.u_actual
         /\ calls' = Append(calls, Call("dynamics", i,
                                        <<eta, nu, u_actual, u_control>>,
                                        <<r.nu, r.u_actual>>, FALSE))
    /\ pc' = "l80"
    /\ UNCHANGED <<N, sampleTime, eta_init, vehicle, t, i, iter, eta,
                   u_control, simData, simTime, ret, plotted>>

\* line 79: [nu, u_actual] = vehicle.dynamics(eta, nu, u_actual, u_control, sampleTime)
Dynamics ==
    /\ pc = "l79"
    /\ LET r == dynamics(vehicle, eta, nu, u_actual, u_control, sampleTime) IN
         /\ nu' = r.nu
         /\ u_actual' = r.u_actual
         /\ calls' = Append(calls, Call("dynamics", i,
                                        <<eta, nu, u_actual, u_control>>,
                                        <<r.nu, r.u_actual>>, FALSE))
    /\ pc' = "l80"
    /\ UNCHANGED <<N, sampleTime, eta_init, vehicle, t, i, iter, eta,
                   u_control, simData, simTime, ret, plotted>>

\* Mutant: the new eta is also written into the array eta_init names.
Integrate_InPlace ==
    /\ pc = "l80"
    /\ LET r == attitudeEuler(eta, nu, sampleTime) IN
         /\ eta' = r
         /\ eta_init' = r
         /\ calls' = Append(calls, Call("attitudeEuler", i, <<eta, nu>>,
                                        <<r>>, FALSE))
    /\ pc' = "l65"
    /\ UNCHANGED <<N, sampleTime, vehicle, t, i, iter, nu,
                   u_actual, u_control, simData, simTime, ret, plotted>>

\* line 80: eta = attitudeEuler(eta, nu, sampleTime)
Integrate ==
    /\ pc = "l80"
    /\ LET r == attitudeEuler(eta, nu, sampleTime) IN
         /\ eta' = r
         /\ calls' = Append(calls, Call("attitudeEuler", i, <<eta, nu>>,
                                        <<r>>, FALSE))
    /\ pc' = "l65"
    /\ UNCHANGED <<N, sampleTime, eta_init, vehicle, t, i, iter, nu,
                   u_actual, u_control, simData, simTime, ret, plotted>>

\* line 70: the autopilot raises; main() has no handler
AutopilotRaises ==
    /\ pc = "l70"
    /\ calls' = Append(calls, Call("headingAutopilot", i, <<eta, nu>>,
                                   <<>>, TRUE))
    /\ pc' = "failed"
    /\ UNCHANGED <<N, sampleTime, eta_init, vehicle, t, i, iter, eta, nu,
                   u_actual, u_control, simData, simTime, ret, plotted>>

\* Mutant: the exception of the dynamics is swallowed and the loop goes on.
DynamicsRaises_Swallowed ==
    /\ pc = "l79"
    /\ calls' = Append(calls, Call("dynamics", i,
                                   <<eta, nu, u_actual, u_control>>,
                                   <<>>, TRUE))
    /\ pc' = "l80"
    /\ UNCHANGED <<N, sampleTime, eta_init, vehicle, t, i, iter, eta, nu,
                   u_actual, u_control, simData, simTime, ret, plotted>>

\* line 79: the dynamics raises; main() has no handler
DynamicsRaises ==
    /\ pc = "l79"
    /\ calls' = Append(calls, Call("dynamics", i,
                                   <<eta, nu, u_actual, u_control>>,
                                   <<>>, TRUE))
    /\ pc' = "failed"
    /\ UNCHANGED <<N, sampleTime, eta_init, vehicle, t, i, iter, eta, nu,
                   u_actual, u_control, simData, simTime, ret, plotted>>

\* line 80: the integrator raises; main() has no handler
AttitudeEulerRaises ==
    /\ pc = "l80"
    /\ calls' = Append(calls, Call("attitudeEuler", i, <<eta, nu>>,
                                   <<>>, TRUE))
    /\ pc' = "failed"
    /\ UNCHANGED <<N, sampleTime, eta_init, vehicle, t, i, iter, eta, nu,
                   u_actual, u_control, simData, simTime, ret, plotted>>

\* Mutant: the time vector stops at t instead of t + sampleTime.
StoreTime_StopAtT ==
    /\ pc = "l83"
    /\ simTime' = arange(0, t, sampleTime)
    /\ pc' = "l84"
    /\ UNCHANGED <<N, sampleTime, eta_init, vehicle, t, i, iter, eta, nu,
                   u_actual, u_control, simData, ret, plotted, calls>>

\* line 83: simTime = np.arange(start=0, stop=t+sampleTime, step=sampleTime)
StoreTime ==
    /\ pc = "l83"
    /\ simTime' = arange(0, t + sampleTime, sampleTime)
    /\ pc' = "l84"
    /\ UNCHANGED <<N, sampleTime, eta_init, vehicle, t, i, iter, eta, nu,
                   u_actual, u_control, simData, ret, plotted, calls>>

\* line 84, the call: simulate(N, sampleTime, vehicle, eta_init) runs on the
\* vehicle object the inline loop has just used
CallSimulate ==
    /\ pc = "l84"
    /\ LET r == simulate(N, sampleTime, vehicle, eta_init) IN
         /\ ret' = <<r.simTime, r.simData>>
         /\ vehicle' = r.vehicle
         /\ calls' = Append(calls, Call("simulate", 0, <<eta_init>>,
                                        r.simData, FALSE))
    /\ pc' = "l84r"
    /\ UNCHANGED <<N, sampleTime, eta_init, t, i, iter, eta, nu, u_actual,
                   u_control, simData, simTime, plotted>>

\* line 84: a component raises inside simulate(); main() has no handler
SimulateRaises ==
    /\ pc = "l84"
    /\ \E k \in 0..N, c \in Components :
         /\ vehicle' = simulateAborted(k, c, sampleTime, vehicle, eta_init)
         /\ calls' = Append(calls, Call("simulate", k, <<eta_init>>,
                                        <<>>, TRUE))
    /\ pc' = "failed"
    /\ UNCHANGED <<N, sampleTime, eta_init, t, i, iter, eta, nu, u_actual,
                   u_control, simData, simTime, ret, plotted>>

\* line 84, the unpacking: [simTime, simData] = <returned pair>
AssignResult ==
    /\ pc = "l84r"
    /\ simTime' = ret[1]
    /\ simData' = ret[2]
    /\ pc' = "l87"
    /\ UNCHANGED <<N, sampleTime, eta_init, vehicle, t, i, iter, eta, nu,
                   u_actual, u_control, ret, plotted, calls>>

\* line 87: plotVehicleStates(simTime, simData, 1)
Plot ==
    /\ pc = "l87"
    /\ plotted' = <<simTime, simData>>
    /\ pc' = "l95"
    /\ UNCHANGED <<N, sampleTime, eta_init, vehicle, t, i, iter, eta, nu,
                   u_actual, u_control, simData, simTime, ret, calls>>

\* line 95: plt.show(), then main() returns
Show ==
    /\ pc = "l95"
    /\ pc' = "done"
    /\ UNCHANGED <<N, sampleTime, eta_init, vehicle, t, i, iter, eta, nu,
                   u_actual, u_control, simData, simTime, ret, plotted, calls>>

Next ==
    \/ InitState
    \/ ForNext
    \/ ForExit
    \/ Autopilot
    \/ AutopilotRaises
    \/ Record
    \/ Dynamics
    \/ DynamicsRaises
    \/ Integrate
    \/ AttitudeEulerRaises
    \/ StoreTime
    \/ CallSimulate
    \/ SimulateRaises
    \/ AssignResult
    \/ Plot
    \/ Show

Spec == Init /\ [][Next]_vars

\* main() when no component raises
NextOK ==
    \/ InitState
    \/ ForNext
    \/ ForExit
    \/ Autopilot
    \/ Record
    \/ Dynamics
    \/ Integrate
    \/ StoreTime
    \/ CallSimulate
    \/ AssignResult
    \/ Plot
    \/ Show

\* Sequential execution: the interpreter always takes the next step.
FairSpec == Init /\ [][NextOK]_vars /\ WF_vars(NextOK)

\* ------------------------------------------------------------ properties

\* The four blocks of a row of the data table.
EtaOf(row) == SubSeq(row, 1, DOF)
NuOf(row)  == SubSeq(row, DOF + 1, 2 * DOF)
UcOf(row)  == SubSeq(row, 2 * DOF + 1, 2 * DOF + vehicle.dimU)
UaOf(row)  == SubSeq(row, 2 * DOF + vehicle.dimU + 1, Len(row))

IsPrefix(a, b) == Len(a) <= Len(b) /\ SubSeq(b, 1, Len(a)) = a

\* simData is the table built by the inline loop (not yet replaced, line 84)
InlineTable == pc \notin {"l53", "l87", "l95", "done"}

\* the inline loop has run to completion
LoopCompleted == pc \in {"l83", "l84", "l84r"}

\* The state before iteration k is advanced, read off the call log: the
\* initial state for k = 0, else what the integrator and the dynamics
\* returned in iteration k-1.
PreEta(k) == IF k = 0 THEN eta_init ELSE calls[4 * k].ret[1]
PreNu(k)  == IF k = 0 THEN vehicle.nu ELSE calls[4 * k - 1].ret[1]
PreUa(k)  == IF k = 0 THEN vehicle.u_actual ELSE calls[4 * k - 1].ret[2]

\* ---- C1 ----------------------------------------------------------------
C1_RowCount ==
    /\ pc = "l53" => simData = <<>>
    /\ pc = "l65" => Len(simData) = iter
    /\ pc \in {"l70", "l75"} => Len(simData) = i
    /\ pc \in {"l79", "l80"} => Len(simData) = i + 1
    /\ LoopCompleted => Len(simData) = N + 1

C1_AppendStep ==
    pc \in {"l65", "l70", "l75", "l79", "l80", "l83"}
      => IsPrefix(simData, simData')

\* C1: the history table of the driver loop starts empty, holds exactly
\* i+1 rows after the iteration with index i, holds exactly N+1 rows when
\* the loop completes, and grows only by appending: a row once appended is
\* never changed or removed by a later iteration.
C1_HistoryTable ==
    /\ []C1_RowCount
    /\ [][C1_AppendStep]_vars

C1_Witness == pc = "l83" /\ N >= 2 /\ Len(simData) = N + 1

\* ---- C2 ----------------------------------------------------------------
\* C2: for every index k in 0..N the row recorded at iteration k holds the
\* state (eta, nu) and u_actual from before the dynamics and the integrator
\* are advanced for index k (row 0: eta_init and the vehicle's initial nu
\* and u_actual; row k >= 1: what the integrator and the dynamics returned
\* at iteration k-1), together with the u_control the autopilot computed
\* from that same (eta, nu).
C2_RowIsPreAdvance ==
    InlineTable =>
      \A r \in 1..Len(simData) :
        LET k   == r - 1
            row == simData[r]
            ap  == calls[4 * k + 1]
        IN  /\ k >= 1 => /\ calls[4 * k].fn = "attitudeEuler"
                         /\ calls[4 * k].i = k - 1
                         /\ calls[4 * k - 1].fn = "dynamics"
                         /\ calls[4 * k - 1].i = k - 1
            /\ EtaOf(row) = PreEta(k)
            /\ NuOf(row) = PreNu(k)
            /\ UaOf(row) = PreUa(k)
            /\ ap.fn = "headingAutopilot"
            /\ ap.i = k
            /\ ap.args = <<EtaOf(row), NuOf(row)>>
            /\ UcOf(row) = ap.ret[1]

C2_Witness ==
    /\ pc = "l83"
    /\ Len(simData) >= 3
    /\ NuOf(simData[3]) # NuOf(simData[2])
    /\ EtaOf(simData[2]) # eta_init
    /\ UaOf(simData[3]) # vehicle.u_actual

\* ---- C3 ----------------------------------------------------------------
\* C3: when the run of simulate() starts on the vehicle (line 84), the
\* controller memory and the vehicle's stored nu and u_actual equal their
\* values at vehicle construction.
C3_NoLeakBetweenRuns ==
    pc = "l84" => vehicle = shipClarke83(vehicle.dimU)

\* ---- C4 ----------------------------------------------------------------
\* C4: the table returned by simulate(N, sampleTime, vehicle, eta_init)
\* equals, row for row, the table built by the inline loop on the same
\* vehicle and the same eta_init.
C4_Determinism ==
    pc = "l84r" => ret[2] = simData

\* ---- C5 ----------------------------------------------------------------
Order == <<"headingAutopilot", "vstack", "dynamics", "attitudeEuler">>

\* C5: in every iteration the components run in the order autopilot,
\* record row, dynamics, integrator; the autopilot reads the pre-step
\* (eta, nu); the dynamics receives the pre-step eta, nu and u_actual with
\* the u_control of this iteration; the integrator receives the pre-step
\* eta with the nu just returned by the dynamics.
C5_StrictOrder ==
    \A p \in 1..Len(calls) :
      calls[p].fn # "simulate" =>
        LET k == (p - 1) \div 4
            o == (p - 1) % 4
            c == calls[p]
        IN  /\ c.fn = Order[o + 1]
            /\ c.i = k
            /\ o = 0 => c.args = <<PreEta(k), PreNu(k)>>
            /\ o = 1 => c.args = <<((PreEta(k) \o PreNu(k))
                                     \o calls[p - 1].ret[1]) \o PreUa(k)>>
            /\ o = 2 => c.args = <<PreEta(k), PreNu(k), PreUa(k),
                                   calls[p - 2].ret[1]>>
            /\ o = 3 => /\ c.args = <<PreEta(k), calls[p - 1].ret[1]>>
                        /\ calls[p - 1].fn = "dynamics"

C5_Witness ==
    /\ pc = "l65"
    /\ Len(calls) = 8
    /\ calls[8].fn = "attitudeEuler"
    /\ calls[8].args[2] # calls[7].args[2]

\* ---- C6 ----------------------------------------------------------------
\* C6: the time vector has as many entries as the history table has rows
\* (N+1), entry k is k*dt for every k in 0..N, and row k of the table is
\* recorded while the simulated time t is k*dt.
C6_TimeAligned ==
    /\ pc \in {"l70", "l75"} => t = i * sampleTime
    /\ pc = "l75" => t = Len(simData) * sampleTime
    /\ pc \in {"l84", "l87", "l95", "done"} =>
         /\ Len(simTime) = Len(simData)
         /\ Len(simTime) = N + 1
         /\ \A k \in 0..N : simTime[k + 1] = k * sampleTime

C6_Witness ==
    pc = "l84" /\ N >= 2 /\ sampleTime >= 2 /\ Len(simTime) = N + 1

\* ---- C7 ----------------------------------------------------------------
\* C7: every row of the history table has exactly 2*DOF + 2*dimU columns,
\* laid out as the 6 eta components, the 6 nu components, the dimU
\* u_control components and the dimU u_actual components.
C7_ColumnLayout ==
    /\ \A r \in 1..Len(simData) :
         Len(simData[r]) = 2 * DOF + 2 * vehicle.dimU
    /\ pc = "l79" =>
         LET row == simData[Len(simData)] IN
           /\ SubSeq(row, 1, 6) = eta
           /\ SubSeq(row, 7, 12) = nu
           /\ SubSeq(row, 13, 12 + vehicle.dimU) = u_control
           /\ SubSeq(row, 13 + vehicle.dimU, 12 + 2 * vehicle.dimU) = u_actual

C7_Witness ==
    /\ pc = "l79"
    /\ vehicle.dimU = 2
    /\ u_control # u_actual
    /\ eta # nu
    /\ Len(simData) >= 2

\* ---- C8 ----------------------------------------------------------------
RowsLogged == Cardinality({p \in 1..Len(calls) : calls[p].fn = "vstack"})

\* C8: a failure of the autopilot, the dynamics or the integrator at
\* iteration i ends the run at once with the failure propagated: the
\* failed call is the last call made, it is made once, no further row is
\* appended, and nothing is passed to the plotting consumer.
C8_FailureIsFatal ==
    /\ \A p \in 1..Len(calls) :
         calls[p].raised => p = Len(calls) /\ pc = "failed"
    /\ pc = "failed" =>
         LET c == calls[Len(calls)] IN
           /\ c.raised
           /\ plotted = <<>>
           /\ ret = <<>>
           /\ Len(simData) = RowsLogged
           /\ c.fn \in Components =>
                /\ c.i = i
                /\ Len(simData) = IF c.fn = "headingAutopilot" THEN i ELSE i + 1
                /\ Cardinality({p \in 1..Len(calls) :
                                  calls[p].fn = c.fn /\ calls[p].i = i}) = 1
                /\ simTime = <<>>

C8_Witness ==
    /\ pc = "failed"
    /\ calls[Len(calls)].fn = "dynamics"
    /\ i = 1
    /\ N >= 2

\* ---- C9 ----------------------------------------------------------------
CallsOf(c, k) ==
    Cardinality({p \in 1..Len(calls) : calls[p].fn = c /\ calls[p].i = k})

C9_Frozen ==
    LoopCompleted =>
      /\ eta' = eta
      /\ nu' = nu
      /\ u_actual' = u_actual
      /\ vehicle'.e_int = vehicle.e_int
      /\ simData' = simData

\* C9: when no component fails the driver always reaches Completed after
\* exactly N+1 iterations, each of which calls the autopilot, the dynamics
\* and the integrator exactly once; once Completed (N+1 rows recorded) no
\* further mutation of eta, nu, u_actual, the controller memory or the
\* history table occurs.
C9_RunsToCompletion ==
    /\ <>LoopCompleted
    /\ [](LoopCompleted =>
            /\ iter = N + 1
            /\ \A c \in Components, k \in 0..N : CallsOf(c, k) = 1)
    /\ [][C9_Frozen]_vars

\* ---- C10 ---------------------------------------------------------------
C10_Step ==
    /\ eta' # eta => pc \in {"l53", "l80"}
    /\ nu' # nu => pc \in {"l53", "l79"}
    /\ u_actual' # u_actual => pc \in {"l53", "l79"}
    /\ eta_init' = eta_init

====
